---- MODULE Spec2Model ----
(***************************************************************************)
(* PayD backend: the contract upgrade orchestrator                         *)
(* (backend/src/services/contractUpgradeService.ts behind                  *)
(* backend/src/controllers/contractUpgradeController.ts) over the          *)
(* contract_registry / contract_upgrade_logs tables and the Soroban RPC.   *)
(*                                                                         *)
(* Every `await` of the service is a scheduling point: one action of the  *)
(* model is the code between two awaits of one request together with the   *)
(* single store statement or RPC call it waits for.                        *)
(***************************************************************************)
EXTENDS Integers, Sequences, FiniteSets, TLC

\* ---------------------------------------------------------------------------
\* Bounds of the model
\* ---------------------------------------------------------------------------

\* number of requests that can be in flight at the same time
MaxCalls == 2

\* number of rows contract_upgrade_logs can hold
MaxLogs == 2

\* ---------------------------------------------------------------------------
\* Program constants
\* ---------------------------------------------------------------------------

\* {64} of WASM_HASH_REGEX, .length(64) of wasmHashSchema, VARCHAR(64)
HASH_LEN == 64

\* pollForConfirmation
MAX_POLLS == 10

NULL == "NULL"

Calls == 1..MaxCalls

\* ---------------------------------------------------------------------------
\* Strings: a string is the sequence of its runs, a run being n >= 1 copies of
\* one character, with neighbouring runs of different characters (so two
\* strings are equal exactly when their run sequences are)
\* ---------------------------------------------------------------------------

Run(ch, n) == [ch |-> ch, n |-> n]

Rep(ch, n) == << Run(ch, n) >>

RECURSIVE StrLen(_)
StrLen(s) == IF s = << >> THEN 0 ELSE Head(s).n + StrLen(Tail(s))

StrChars(s) == {s[k].ch : k \in DOMAIN s}

\* s followed by the run r
AppendRun(s, r) ==
  IF s # << >> /\ s[Len(s)].ch = r.ch
    THEN [s EXCEPT ![Len(s)].n = @ + r.n]
    ELSE Append(s, r)

RECURSIVE Concat(_, _)
Concat(s, t) == IF t = << >> THEN s ELSE Concat(AppendRun(s, Head(t)), Tail(t))

LowerHexChars == {"0", "1", "2", "3", "4", "5", "6", "7", "8", "9",
                  "a", "b", "c", "d", "e", "f"}

UpperHexChars == {"A", "B", "C", "D", "E", "F"}

\* String.prototype.toLowerCase on one character of the input alphabet
LowerChar(ch) ==
  CASE ch = "A" -> "a" [] ch = "B" -> "b" [] ch = "C" -> "c"
    [] ch = "D" -> "d" [] ch = "E" -> "e" [] ch = "F" -> "f"
    [] ch = "G" -> "g"
    [] OTHER -> ch

RECURSIVE toLowerCase(_)
toLowerCase(s) ==
  IF s = << >> THEN << >>
  ELSE Concat(<< Run(LowerChar(Head(s).ch), Head(s).n) >>, toLowerCase(Tail(s)))

\* /^[0-9a-f]{64}$/i  (the i flag accepts upper-case digits)
WASM_HASH_REGEX(s) ==
  /\ StrLen(s) = HASH_LEN
  /\ StrChars(s) \subseteq LowerHexChars \cup UpperHexChars

\* a schema that checks the length and forgets the digits
wasmHashSchemaLengthOnly(s) == StrLen(s) = HASH_LEN

\* z.string().length(64).regex(/^[0-9a-f]{64}$/i)
wasmHashSchema(s) ==
  /\ StrLen(s) = HASH_LEN
  /\ WASM_HASH_REGEX(s)

\* VARCHAR(64) CHECK (new_wasm_hash ~ '^[0-9a-f]{64}$')
chk_hash_format(s) ==
  /\ StrLen(s) = HASH_LEN
  /\ StrChars(s) \subseteq LowerHexChars

\* a table without the constraint
chk_different_hashes_dropped(new, prev) == TRUE

\* CONSTRAINT chk_different_hashes CHECK (new_wasm_hash <> previous_wasm_hash)
chk_different_hashes(new, prev) == new # prev

\* the hashes a request body can carry: two well-formed ones, one in upper
\* case, one too short, one too long, and one of the right length whose last
\* character is no hex digit
HashInputs ==
  { Rep("a", HASH_LEN), Rep("b", HASH_LEN), Rep("B", HASH_LEN),
    Rep("a", HASH_LEN - 1), Rep("b", HASH_LEN + 1),
    Concat(Rep("b", HASH_LEN - 1), Rep("G", 1)) }

\* a malformed hash: wrong length, or a character that is no hex digit
Malformed(s) ==
  \/ StrLen(s) # HASH_LEN
  \/ \E ch \in StrChars(s) : ch \notin LowerHexChars \cup UpperHexChars

\* ---------------------------------------------------------------------------
\* Store rows
\* ---------------------------------------------------------------------------

\* INSERT INTO contract_registry ... VALUES ('Bulk Payment', ... 'aaaa...')
SeedRegistry ==
  << [ current_wasm_hash |-> Rep("a", HASH_LEN),
       last_upgraded_at  |-> NULL,
       last_upgraded_by  |-> NULL ] >>

RegistryIds == DOMAIN SeedRegistry

\* registry ids a request can name: the seeded rows and one id without a row
RegistryIdInputs == RegistryIds \cup {Len(SeedRegistry) + 1}

LogIdInputs == 1..MaxLogs

DEFAULT_MIGRATION_STEPS ==
  << [name |-> "Verify on-chain contract state",        status |-> "pending", message |-> NULL],
     [name |-> "Validate storage schema compatibility", status |-> "pending", message |-> NULL],
     [name |-> "Re-index contract data entries",        status |-> "pending", message |-> NULL],
     [name |-> "Emit upgrade audit event",              status |-> "pending", message |-> NULL] >>

\* ids are positional: step-0 .. step-3
buildDefaultMigrationSteps ==
  [i \in 1..Len(DEFAULT_MIGRATION_STEPS) |->
     [ id      |-> i - 1,
       status  |-> DEFAULT_MIGRATION_STEPS[i].status,
       message |-> DEFAULT_MIGRATION_STEPS[i].message ]]

NoSteps == << >>

TerminalStatuses == {"completed", "failed", "cancelled"}

AllStatuses == {"pending", "simulated", "confirmed", "executing",
                "completed", "failed", "cancelled"}

\* a precondition that lets a log through before it was simulated
ExecutableStatusesWithPending == {"pending", "simulated", "confirmed"}

ExecutableStatuses == {"simulated", "confirmed"}

\* a WHERE clause that also matches a log under execution
CancellableStatusesWithExecuting == {"pending", "simulated", "confirmed", "executing"}

CancellableStatuses == {"pending", "simulated", "confirmed"}

\* ---------------------------------------------------------------------------
\* State
\* ---------------------------------------------------------------------------

VARIABLES
  registry,   \* contract_registry: id -> row
  logs,       \* contract_upgrade_logs: id -> row, ids in insertion order
  chain,      \* the ledger: registry id -> hash of the code live at the contract
  txStatus,   \* the ledger: status of the transaction each request submitted
  orphans,    \* the ledger: transactions still pending whose request has ended
  call,       \* the requests in flight: slot -> locals and position
  response    \* the response a request has just returned, until it is read

upgradeVars == << registry, logs, chain, txStatus, orphans, call, response >>

VARIABLES
  events,       \* contract_events: the rows in insertion order
  checkpoint,   \* contract_event_index_state.last_ledger_sequence of the row
                \* 'soroban_contract_events', NoStateRow before it exists
  latest,       \* the ledger: sequence number of the last closed ledger
  initialized,  \* the process: initialize() has returned
  running,      \* ContractEventIndexerService.running
  timer,        \* ContractEventIndexerService.timer holds a handle
  intervals,    \* the event loop: number of live setInterval timers
  lock,         \* ContractEventIndexerService.lock
  cycle,        \* the pollOnce calls in flight: slot -> locals and position
  fixture,      \* the RPC endpoint: the live node, or a fixture with one page
  floor         \* DEFAULT_START_LEDGER as this process read it at load

indexerVars ==
  << events, checkpoint, latest, initialized, running, timer, intervals,
     lock, cycle, fixture, floor >>

vars == << upgradeVars, indexerVars >>

LogIds == DOMAIN logs

NoHash == << >>

\* simulation_result IS NULL
NullSimulation == [isNull |-> TRUE, success |-> FALSE, error |-> NULL]

NoResponse == [op |-> "none", kind |-> "none", detail |-> NULL, lid |-> 0]

Result(op, kind, detail, lid) ==
  [op |-> op, kind |-> kind, detail |-> detail, lid |-> lid]

\* a slot without a request
IdleCall ==
  [ op |-> "idle", pc |-> "idle", reg |-> 0, hash |-> NoHash, lid |-> 0,
    prev |-> NoHash, newh |-> NoHash, err |-> NULL,
    steps |-> NoSteps, i |-> 0 ]

Idle(c) == call[c].op = "idle"

\* the server takes a step; the response of the step before has been read
Ready == response = NoResponse

\* a new request takes the lowest free slot
FreeSlot(c) == Ready /\ Idle(c) /\ \A d \in 1..(c - 1) : ~Idle(d)

At(c, pc) == Ready /\ call[c].pc = pc

\* return or throw: the slot is free again
Respond(c, result) ==
  /\ call' = [call EXCEPT ![c] = IdleCall]
  /\ response' = result

\* ---------------------------------------------------------------------------
\* Event indexer: constants and initial state
\* ---------------------------------------------------------------------------

\* ledgers the network closes during a run
MaxLedger == 3

\* getEvents pagination limit (100 in the source), scaled down
PageLimit == 2

\* slots for pollOnce calls in flight
MaxCycles == 2

\* live timers the event loop can hold
MaxIntervals == 2

Cycles == 1..MaxCycles

\* Number(process.env.SOROBAN_EVENT_START_LEDGER || '0') with the variable unset
DEFAULT_START_LEDGER == 0

\* highest value the environment gives SOROBAN_EVENT_START_LEDGER
MaxFloor == 2

Floors == DEFAULT_START_LEDGER..MaxFloor

\* SELECT last_ledger_sequence ... returns no row
NoStateRow == -1

\* getIndexedContractIds(): the contracts named by the environment
IndexedContracts == {"CA", "CB"}

NoPage == << >>

\* STELLAR_RPC_URL names a node of the network
LiveRpc == [on |-> FALSE, page |-> NoPage]

\* a slot without a pollOnce call
IdleCycle ==
  [ pc |-> "idle", lastIndexed |-> 0, startLedger |-> 0, page |-> NoPage,
    i |-> 0, maxLedger |-> 0 ]

\* the tables exist and are empty, the process has just come up
IndexerInit ==
  /\ events = << >>
  /\ checkpoint = NoStateRow
  /\ latest = 0
  /\ initialized = FALSE
  /\ running = FALSE
  /\ timer = FALSE
  /\ intervals = 0
  /\ lock = FALSE
  /\ cycle = [k \in Cycles |-> IdleCycle]
  /\ fixture = LiveRpc
  /\ floor = DEFAULT_START_LEDGER

UpgradeInit ==
  /\ registry = SeedRegistry
  /\ logs = << >>
  /\ chain = [r \in RegistryIds |-> SeedRegistry[r].current_wasm_hash]
  /\ txStatus = [c \in Calls |-> "none"]
  /\ orphans = {}
  /\ call = [c \in Calls |-> IdleCall]
  /\ response = NoResponse

Init == UpgradeInit /\ IndexerInit

\* the client reads the response
ReadResponse ==
  /\ response # NoResponse
  /\ response' = NoResponse
  /\ UNCHANGED << registry, logs, chain, txStatus, orphans, call >>
  /\ UNCHANGED indexerVars

\* SELECT * FROM contract_registry WHERE id = $1 : is there a row
ContractExists(registryId) == registryId \in DOMAIN registry

\* ... and the row (result.rows[0])
getContract(registryId) == registry[registryId]

\* ---------------------------------------------------------------------------
\* POST /:registryId/validate-hash
\* ---------------------------------------------------------------------------

RpcLedgerEntryOutcomes == {"found", "absent", "unreachable"}

\* a check that takes an unreachable RPC for a missing code object
validateWasmHashStrictRpc(registryId, newWasmHash, rpc) ==
  IF ~WASM_HASH_REGEX(newWasmHash) THEN "invalid: format"
  ELSE IF ~ContractExists(registryId) THEN "invalid: contract not found"
  ELSE IF toLowerCase(newWasmHash) = toLowerCase(getContract(registryId).current_wasm_hash)
    THEN "invalid: identical"
  ELSE IF rpc # "found" THEN "invalid: not on chain"
  ELSE "valid"

\* the service's answer { valid, reason }; rpc is what getLedgerEntries does
\* when the service comes to call it
validateWasmHash(registryId, newWasmHash, rpc) ==
  IF ~WASM_HASH_REGEX(newWasmHash) THEN "invalid: format"
  ELSE IF ~ContractExists(registryId) THEN "invalid: contract not found"
  ELSE IF toLowerCase(newWasmHash) = toLowerCase(getContract(registryId).current_wasm_hash)
    THEN "invalid: identical"
  ELSE IF rpc = "absent" THEN "invalid: not on chain"
  ELSE "valid"

\* no request is in flight
Quiet == \A c \in Calls : Idle(c)

\* the whole handler: controller parse, then the service. It reads one registry
\* row in one statement and writes nothing, so what it answers depends on the
\* registry alone; the model takes it between the other requests, where every
\* value of the registry occurs.
ValidateHash(c, registryId, newWasmHash, rpc) ==
  /\ FreeSlot(c)
  /\ Quiet
  /\ IF ~wasmHashSchema(newWasmHash)
       THEN Respond(c, Result("validate", "ValidationError", NULL, 0))
       ELSE Respond(c, Result("validate", "ok",
                              validateWasmHash(registryId, newWasmHash, rpc), 0))
  /\ UNCHANGED << registry, logs, chain, txStatus, orphans >>
  /\ UNCHANGED indexerVars

\* ---------------------------------------------------------------------------
\* POST /:registryId/simulate-upgrade
\* ---------------------------------------------------------------------------

\* requests that will still insert a log row
InsertsAhead == Cardinality({c \in Calls : call[c].pc = "sim_insert"})

\* controller parse, then the service's getContract. A request refused here
\* has read no row that changes (registry rows are never deleted) and written
\* nothing; like ValidateHash, the model takes it between the other requests.
SimLoad(c, registryId, newWasmHash) ==
  /\ FreeSlot(c)
  /\ IF ~wasmHashSchema(newWasmHash)
       THEN Quiet /\ Respond(c, Result("simulate", "ValidationError", NULL, 0))
       ELSE IF ~ContractExists(registryId)
         THEN Quiet /\ Respond(c, Result("simulate", "NotFoundError", NULL, 0))
         ELSE /\ Len(logs) + InsertsAhead < MaxLogs
              /\ call' = [call EXCEPT ![c] =
                   [IdleCall EXCEPT
                      !.op = "simulate", !.pc = "sim_insert",
                      !.reg = registryId, !.hash = newWasmHash,
                      !.prev = getContract(registryId).current_wasm_hash]]
              /\ response' = NoResponse
  /\ UNCHANGED << registry, logs, chain, txStatus, orphans >>
  /\ UNCHANGED indexerVars

NewLogRow(registryId, prev, new) ==
  [ registry_id        |-> registryId,
    previous_wasm_hash |-> prev,
    new_wasm_hash      |-> new,
    status             |-> "pending",
    simulation_result  |-> NullSimulation,
    tx_hash            |-> NULL,
    migration_steps    |-> buildDefaultMigrationSteps,
    error_message      |-> NULL,
    completed_at       |-> NULL ]

\* the CHECK constraints of contract_upgrade_logs on the inserted row
InsertAccepted(row) ==
  /\ chk_hash_format(row.previous_wasm_hash)
  /\ chk_hash_format(row.new_wasm_hash)
  /\ chk_different_hashes(row.new_wasm_hash, row.previous_wasm_hash)

\* INSERT INTO contract_upgrade_logs (...) VALUES (..., 'pending', ...) RETURNING id
SimInsert(c) ==
  /\ At(c, "sim_insert")
  /\ LET row == NewLogRow(call[c].reg, call[c].prev, toLowerCase(call[c].hash))
     IN IF InsertAccepted(row)
          THEN /\ logs' = Append(logs, row)
               /\ call' = [call EXCEPT ![c].pc = "sim_rpc", ![c].lid = Len(logs) + 1]
               /\ response' = NoResponse
          ELSE /\ logs' = logs
               /\ Respond(c, Result("simulate", "InternalError", NULL, 0))
  /\ UNCHANGED << registry, chain, txStatus, orphans >>
  /\ UNCHANGED indexerVars

\* what the simulation block leaves in `simulation`:
\*   ok        simulateTransaction succeeded, or getAccount failed and
\*             rawRpcSimulate answered with a fee estimate (always success)
\*   sim_error isSimulationError(simResponse)
\*   rpc_error an RPC call threw, caught by the surrounding try
SimOutcomes == {"ok", "sim_error", "rpc_error"}

SimulationOf(outcome) ==
  [ isNull  |-> FALSE,
    success |-> outcome = "ok",
    error   |-> IF outcome = "ok" THEN NULL ELSE outcome ]

\* const newStatus = simulation.success ? 'simulated' : 'failed'
SimNewStatus(simulation) == IF simulation.success THEN "simulated" ELSE "failed"

\* an UPDATE that stamps completed_at whatever the status
SimCompletedAtAlways(newStatus) == "NOW"

\* completed_at = CASE WHEN $1 = 'failed' THEN NOW() ELSE NULL END
SimCompletedAt(newStatus) == IF newStatus = "failed" THEN "NOW" ELSE NULL

\* the RPC simulation (it writes nothing), then
\* UPDATE contract_upgrade_logs SET status, simulation_result, error_message,
\* completed_at WHERE id = $4; then return
SimPersist(c, outcome) ==
  /\ At(c, "sim_rpc")
  /\ LET simulation == SimulationOf(outcome)
         newStatus == SimNewStatus(simulation)
     IN /\ logs' = [logs EXCEPT ![call[c].lid] =
                      [@ EXCEPT !.status = newStatus,
                                !.simulation_result = simulation,
                                !.error_message = simulation.error,
                                !.completed_at = SimCompletedAt(newStatus)]]
        /\ Respond(c, Result("simulate", "ok", outcome, call[c].lid))
  /\ UNCHANGED << registry, chain, txStatus, orphans >>
  /\ UNCHANGED indexerVars

\* ---------------------------------------------------------------------------
\* POST /upgrade-logs/:logId/cancel
\* ---------------------------------------------------------------------------

\* WHERE id = $1 AND status IN ('pending', 'simulated', 'confirmed')
CancelMatches(upgradeLogId) ==
  /\ upgradeLogId \in LogIds
  /\ logs[upgradeLogId].status \in CancellableStatuses

\* one UPDATE ... RETURNING id; rowCount = 0 throws
CancelUpgrade(c, upgradeLogId) ==
  /\ FreeSlot(c)
  /\ IF CancelMatches(upgradeLogId)
       THEN /\ logs' = [logs EXCEPT ![upgradeLogId] =
                          [@ EXCEPT !.status = "cancelled", !.completed_at = "NOW"]]
            /\ Respond(c, Result("cancel", "ok", NULL, upgradeLogId))
       ELSE /\ logs' = logs
            /\ Respond(c, Result("cancel", "ConflictError", NULL, upgradeLogId))
  /\ UNCHANGED << registry, chain, txStatus, orphans >>
  /\ UNCHANGED indexerVars

\* ---------------------------------------------------------------------------
\* POST /upgrade-logs/:logId/execute
\* ---------------------------------------------------------------------------

\* SELECT ul.* ... WHERE ul.id = $1, then the status precondition
ExecLoad(c, upgradeLogId) ==
  /\ FreeSlot(c)
  /\ IF upgradeLogId \notin LogIds
       THEN Respond(c, Result("execute", "NotFoundError", NULL, upgradeLogId))
       ELSE IF logs[upgradeLogId].status \notin ExecutableStatuses
         THEN Respond(c, Result("execute", "InvalidStateError",
                                logs[upgradeLogId].status, upgradeLogId))
         ELSE /\ call' = [call EXCEPT ![c] =
                   [IdleCall EXCEPT
                      !.op = "execute", !.pc = "exec_mark",
                      !.lid = upgradeLogId,
                      !.reg = logs[upgradeLogId].registry_id,
                      !.newh = logs[upgradeLogId].new_wasm_hash]]
              /\ response' = NoResponse
  /\ UNCHANGED << registry, logs, chain, txStatus, orphans >>
  /\ UNCHANGED indexerVars

\* UPDATE contract_upgrade_logs SET status = 'executing' WHERE id = $1
ExecMark(c) ==
  /\ At(c, "exec_mark")
  /\ logs' = [logs EXCEPT ![call[c].lid].status = "executing"]
  /\ call' = [call EXCEPT ![c].pc = "exec_submit"]
  /\ UNCHANGED << registry, chain, txStatus, orphans, response >>
  /\ UNCHANGED indexerVars

\* Keypair.fromSecret, getAccount, SELECT contract_id, the footprint
\* simulation, sendTransaction: nothing of the store is written. "not
\* submitted" is any of: one of them throws, no contract id,
\* !isSimulationSuccess, sendResponse.status === 'ERROR'
SubmitOutcomes == {"accepted", "not submitted"}

ExecSubmit(c, outcome) ==
  /\ At(c, "exec_submit")
  /\ IF outcome = "accepted"
       THEN /\ txStatus' = [txStatus EXCEPT ![c] = "PENDING"]
            /\ call' = [call EXCEPT ![c].pc = "exec_poll"]
       ELSE /\ txStatus' = txStatus
            /\ call' = [call EXCEPT ![c].pc = "exec_fail", ![c].err = outcome]
  /\ UNCHANGED << registry, logs, chain, orphans, response >>
  /\ UNCHANGED indexerVars

\* for (attempt = 0; attempt < MAX_POLLS; attempt++) { getTransaction(hash) ... }
\* with the answers the RPC gives from this attempt on; the result is the next
\* position of the request and the error thrown, if any
RECURSIVE PollFrom(_, _, _)
PollFrom(attempt, status, rpcAnswers) ==
  IF attempt >= MAX_POLLS
    THEN [pc |-> "exec_fail", err |-> "did not confirm"]
  ELSE IF ~rpcAnswers
    THEN [pc |-> "exec_fail", err |-> "rpc error"]
  ELSE IF status = "SUCCESS"
    THEN [pc |-> "exec_registry", err |-> NULL]
  ELSE IF status = "FAILED"
    THEN [pc |-> "exec_fail", err |-> "failed on-chain"]
  ELSE PollFrom(attempt + 1, status, rpcAnswers)

\* a poll that takes every terminal ledger status for a confirmation
pollForConfirmationAnyTerminal(status, rpcAnswers) ==
  IF rpcAnswers /\ status \in {"SUCCESS", "FAILED"}
    THEN [pc |-> "exec_registry", err |-> NULL]
    ELSE PollFrom(0, status, rpcAnswers)

pollForConfirmation(status, rpcAnswers) == PollFrom(0, status, rpcAnswers)

\* the loop from the first attempt that does not find the transaction pending
\* (the attempts before it change nothing), or all of it when every attempt
\* finds it pending
ExecPoll(c, rpcAnswers) ==
  /\ At(c, "exec_poll")
  /\ LET next == pollForConfirmation(txStatus[c], rpcAnswers)
     IN call' = [call EXCEPT ![c].pc = next.pc, ![c].err = next.err]
  /\ UNCHANGED << registry, logs, chain, txStatus, orphans, response >>
  /\ UNCHANGED indexerVars

\* WHERE id = (SELECT registry_id FROM contract_upgrade_logs WHERE id = $3)
RegistryRowOf(upgradeLogId) == logs[upgradeLogId].registry_id

\* SET current_wasm_hash = $1, last_upgraded_at = NOW(), last_upgraded_by = $2
UpgradedRow(row, newHash) ==
  [row EXCEPT !.current_wasm_hash = newHash,
              !.last_upgraded_at = "NOW",
              !.last_upgraded_by = "admin"]

\* UPDATE contract_registry ... ; a store error is caught by the same try
ExecRegistry(c, storeAnswers) ==
  /\ At(c, "exec_registry")
  /\ IF storeAnswers
       THEN /\ registry' = [registry EXCEPT ![RegistryRowOf(call[c].lid)] =
                              UpgradedRow(@, call[c].newh)]
            /\ call' = [call EXCEPT ![c].pc = "exec_txhash"]
       ELSE /\ registry' = registry
            /\ call' = [call EXCEPT ![c].pc = "exec_fail", ![c].err = "store error"]
  /\ UNCHANGED << logs, chain, txStatus, orphans, response >>
  /\ UNCHANGED indexerVars

\* a transaction the ledger has not decided stays on the ledger when the
\* request that submitted it ends
LeftPending(c) ==
  IF txStatus[c] = "PENDING"
    THEN {[reg |-> call[c].reg, hash |-> call[c].newh]}
    ELSE {}

\* a catch block that does not store the message
ExecErrorMessageDropped(err) == NULL

\* error_message = $1: the text says which catch block wrote it
ExecErrorMessage(err) == "execution failed"

\* catch: UPDATE ... SET status = 'failed', error_message, completed_at; rethrow
ExecFail(c) ==
  /\ At(c, "exec_fail")
  /\ logs' = [logs EXCEPT ![call[c].lid] =
                [@ EXCEPT !.status = "failed",
                          !.error_message = ExecErrorMessage(call[c].err),
                          !.completed_at = "NOW"]]
  /\ orphans' = orphans \cup LeftPending(c)
  /\ txStatus' = [txStatus EXCEPT ![c] = "none"]
  /\ Respond(c, Result("execute", "ExecutionError", call[c].err, call[c].lid))
  /\ UNCHANGED << registry, chain >>
  /\ UNCHANGED indexerVars

\* sendResponse.hash as stored in tx_hash
TxHashOf(upgradeLogId) == "deadbeef"

\* UPDATE ... SET tx_hash; void runMigrationSteps(upgradeLogId); return
ExecTxHash(c) ==
  /\ At(c, "exec_txhash")
  /\ logs' = [logs EXCEPT ![call[c].lid].tx_hash = TxHashOf(call[c].lid)]
  /\ txStatus' = [txStatus EXCEPT ![c] = "none"]
  /\ call' = [call EXCEPT ![c].op = "migrate", ![c].pc = "mig_load"]
  /\ response' = Result("execute", "ok", "executing", call[c].lid)
  /\ UNCHANGED << registry, chain, orphans >>
  /\ UNCHANGED indexerVars

\* ---------------------------------------------------------------------------
\* runMigrationSteps, detached from the request that started it
\* ---------------------------------------------------------------------------

\* SELECT migration_steps, registry_id FROM contract_upgrade_logs WHERE id = $1
MigLoad(c) ==
  /\ At(c, "mig_load")
  /\ call' = [call EXCEPT ![c].steps = logs[call[c].lid].migration_steps,
                          ![c].i = 1,
                          ![c].pc = IF Len(logs[call[c].lid].migration_steps) = 0
                                      THEN "mig_complete" ELSE "mig_running"]
  /\ UNCHANGED << registry, logs, chain, txStatus, orphans, response >>
  /\ UNCHANGED indexerVars

\* UPDATE contract_upgrade_logs SET migration_steps = $1 WHERE id = $2
persistMigrationSteps(upgradeLogId, steps) ==
  logs' = [logs EXCEPT ![upgradeLogId].migration_steps = steps]

\* steps[i] = { ...steps[i], status, message }
WithStep(steps, i, status, message) ==
  [steps EXCEPT ![i] = [@ EXCEPT !.status = status, !.message = message]]

\* steps[i] = running; persist
MigRunning(c) ==
  /\ At(c, "mig_running")
  /\ LET steps == WithStep(call[c].steps, call[c].i, "running", NULL)
     IN /\ persistMigrationSteps(call[c].lid, steps)
        /\ call' = [call EXCEPT ![c].steps = steps, ![c].pc = "mig_exec"]
  /\ UNCHANGED << registry, chain, txStatus, orphans, response >>
  /\ UNCHANGED indexerVars

\* the steps that query the store and so can throw: step-0 (getContract),
\* step-1 (SELECT current_wasm_hash), step-3 (INSERT INTO audit_log_actions);
\* step-2 only waits
StepCanFail(step) == step.id \in {0, 1, 3}

\* executeStep (it changes no row of the registry or of the logs), then
\* steps[i] = completed and persist, i++ ; or catch: steps[i] = failed and persist
MigExec(c, stepOk) ==
  /\ At(c, "mig_exec")
  /\ stepOk \/ StepCanFail(call[c].steps[call[c].i])
  /\ LET steps == IF stepOk
                    THEN WithStep(call[c].steps, call[c].i, "completed",
                                  "Step completed successfully.")
                    ELSE WithStep(call[c].steps, call[c].i, "failed", "step error")
     IN /\ persistMigrationSteps(call[c].lid, steps)
        /\ call' = [call EXCEPT
             ![c].steps = steps,
             ![c].i = IF stepOk THEN @ + 1 ELSE @,
             ![c].pc = IF ~stepOk THEN "mig_fail_log"
                       ELSE IF call[c].i < Len(steps) THEN "mig_running"
                       ELSE "mig_complete"]
  /\ UNCHANGED << registry, chain, txStatus, orphans, response >>
  /\ UNCHANGED indexerVars

\* catch: UPDATE ... SET status = 'failed', error_message, completed_at; return
MigFailLog(c) ==
  /\ At(c, "mig_fail_log")
  /\ logs' = [logs EXCEPT ![call[c].lid] =
                [@ EXCEPT !.status = "failed",
                          !.error_message = "migration step failed",
                          !.completed_at = "NOW"]]
  /\ call' = [call EXCEPT ![c] = IdleCall]
  /\ UNCHANGED << registry, chain, txStatus, orphans, response >>
  /\ UNCHANGED indexerVars

\* UPDATE ... SET status = 'completed', completed_at = NOW()
MigComplete(c) ==
  /\ At(c, "mig_complete")
  /\ logs' = [logs EXCEPT ![call[c].lid] =
                [@ EXCEPT !.status = "completed", !.completed_at = "NOW"]]
  /\ call' = [call EXCEPT ![c] = IdleCall]
  /\ UNCHANGED << registry, chain, txStatus, orphans, response >>
  /\ UNCHANGED indexerVars

\* ---------------------------------------------------------------------------
\* The ledger
\* ---------------------------------------------------------------------------

\* the ledger applies a submitted upgrade: the contract's code is the new one
LedgerConfirm(c) ==
  /\ Ready
  /\ txStatus[c] = "PENDING"
  /\ txStatus' = [txStatus EXCEPT ![c] = "SUCCESS"]
  /\ chain' = [chain EXCEPT ![call[c].reg] = call[c].newh]
  /\ UNCHANGED << registry, logs, orphans, call, response >>
  /\ UNCHANGED indexerVars

\* the ledger rejects it
LedgerReject(c) ==
  /\ Ready
  /\ txStatus[c] = "PENDING"
  /\ txStatus' = [txStatus EXCEPT ![c] = "FAILED"]
  /\ UNCHANGED << registry, logs, chain, orphans, call, response >>
  /\ UNCHANGED indexerVars

\* the same for a transaction whose request has given up
LateConfirm(tx) ==
  /\ Ready
  /\ tx \in orphans
  /\ orphans' = orphans \ {tx}
  /\ chain' = [chain EXCEPT ![tx.reg] = tx.hash]
  /\ UNCHANGED << registry, logs, txStatus, call, response >>
  /\ UNCHANGED indexerVars

LateReject(tx) ==
  /\ Ready
  /\ tx \in orphans
  /\ orphans' = orphans \ {tx}
  /\ UNCHANGED << registry, logs, chain, txStatus, call, response >>
  /\ UNCHANGED indexerVars

\* ---------------------------------------------------------------------------
\* Specification
\* ---------------------------------------------------------------------------

Next ==
  \/ ReadResponse
  \/ \E c \in Calls, r \in RegistryIdInputs, h \in HashInputs,
          rpc \in RpcLedgerEntryOutcomes : ValidateHash(c, r, h, rpc)
  \/ \E c \in Calls, r \in RegistryIdInputs, h \in HashInputs : SimLoad(c, r, h)
  \/ \E c \in Calls : SimInsert(c)
  \/ \E c \in Calls, o \in SimOutcomes : SimPersist(c, o)
  \/ \E c \in Calls, l \in LogIdInputs : CancelUpgrade(c, l)
  \/ \E c \in Calls, l \in LogIdInputs : ExecLoad(c, l)
  \/ \E c \in Calls : ExecMark(c)
  \/ \E c \in Calls, o \in SubmitOutcomes : ExecSubmit(c, o)
  \/ \E c \in Calls, a \in BOOLEAN : ExecPoll(c, a)
  \/ \E c \in Calls, a \in BOOLEAN : ExecRegistry(c, a)
  \/ \E c \in Calls : ExecFail(c)
  \/ \E c \in Calls : ExecTxHash(c)
  \/ \E c \in Calls : MigLoad(c)
  \/ \E c \in Calls : MigRunning(c)
  \/ \E c \in Calls, ok \in BOOLEAN : MigExec(c, ok)
  \/ \E c \in Calls : MigFailLog(c)
  \/ \E c \in Calls : MigComplete(c)
  \/ \E c \in Calls : LedgerConfirm(c)
  \/ \E c \in Calls : LedgerReject(c)
  \/ \E tx \in orphans : LateConfirm(tx)
  \/ \E tx \in orphans : LateReject(tx)

Spec == Init /\ [][Next]_vars

\* ---------------------------------------------------------------------------
\* Store errors outside the try blocks of the orchestrator
\* ---------------------------------------------------------------------------

\* the UPDATE to 'executing' throws: the call ends before its try block
ExecMarkStoreError(c) ==
  /\ At(c, "exec_mark")
  /\ Respond(c, Result("execute", "StoreError", NULL, call[c].lid))
  /\ UNCHANGED << registry, logs, chain, txStatus, orphans >>
  /\ UNCHANGED indexerVars

\* the UPDATE of the catch block throws: its error replaces the caught one
ExecFailStoreError(c) ==
  /\ At(c, "exec_fail")
  /\ orphans' = orphans \cup LeftPending(c)
  /\ txStatus' = [txStatus EXCEPT ![c] = "none"]
  /\ Respond(c, Result("execute", "StoreError", NULL, call[c].lid))
  /\ UNCHANGED << registry, logs, chain >>
  /\ UNCHANGED indexerVars

\* the UPDATE of tx_hash throws: the call ends before runMigrationSteps
ExecTxHashStoreError(c) ==
  /\ At(c, "exec_txhash")
  /\ txStatus' = [txStatus EXCEPT ![c] = "none"]
  /\ Respond(c, Result("execute", "StoreError", NULL, call[c].lid))
  /\ UNCHANGED << registry, logs, chain, orphans >>
  /\ UNCHANGED indexerVars

\* positions of runMigrationSteps whose next statement is a store statement
\* outside its try block
MigStorePositions ==
  {"mig_load", "mig_running", "mig_fail_log", "mig_complete"}

\* such a statement throws: the detached run ends, nobody awaits it
MigStoreError(c) ==
  /\ Ready
  /\ call[c].op = "migrate"
  /\ call[c].pc \in MigStorePositions
  /\ call' = [call EXCEPT ![c] = IdleCall]
  /\ UNCHANGED << registry, logs, chain, txStatus, orphans, response >>
  /\ UNCHANGED indexerVars

\* requests that arrive while no other request or migration run is in flight:
\* simulate the seeded contract for one new hash, execute, cancel
SoleSimulate(c) == Quiet /\ SimLoad(c, 1, Rep("b", HASH_LEN))

SoleExecute(c, upgradeLogId) == Quiet /\ ExecLoad(c, upgradeLogId)

SoleCancel(c, upgradeLogId) == Quiet /\ CancelUpgrade(c, upgradeLogId)

\* one request at a time, every step that follows it, and the store errors
NextFaults ==
  \/ ReadResponse
  \/ \E c \in Calls : SoleSimulate(c)
  \/ \E c \in Calls : SimInsert(c)
  \/ \E c \in Calls, o \in SimOutcomes : SimPersist(c, o)
  \/ \E c \in Calls, l \in LogIdInputs : SoleCancel(c, l)
  \/ \E c \in Calls, l \in LogIdInputs : SoleExecute(c, l)
  \/ \E c \in Calls : ExecMark(c)
  \/ \E c \in Calls, o \in SubmitOutcomes : ExecSubmit(c, o)
  \/ \E c \in Calls, a \in BOOLEAN : ExecPoll(c, a)
  \/ \E c \in Calls, a \in BOOLEAN : ExecRegistry(c, a)
  \/ \E c \in Calls : ExecFail(c)
  \/ \E c \in Calls : ExecTxHash(c)
  \/ \E c \in Calls : MigLoad(c)
  \/ \E c \in Calls : MigRunning(c)
  \/ \E c \in Calls, ok \in BOOLEAN : MigExec(c, ok)
  \/ \E c \in Calls : MigFailLog(c)
  \/ \E c \in Calls : MigComplete(c)
  \/ \E c \in Calls : LedgerConfirm(c)
  \/ \E c \in Calls : LedgerReject(c)
  \/ \E tx \in orphans : LateConfirm(tx)
  \/ \E tx \in orphans : LateReject(tx)
  \/ \E c \in Calls : ExecMarkStoreError(c)
  \/ \E c \in Calls : ExecFailStoreError(c)
  \/ \E c \in Calls : ExecTxHashStoreError(c)
  \/ \E c \in Calls : MigStoreError(c)

SpecFaults == Init /\ [][NextFaults]_vars

\* a request in flight or a detached migration run takes its next step, or
\* the client reads a response: the store and the RPC answer every call
CallStep ==
  \/ ReadResponse
  \/ \E c \in Calls :
       \/ SimInsert(c) \/ (\E o \in SimOutcomes : SimPersist(c, o))
       \/ ExecMark(c) \/ (\E o \in SubmitOutcomes : ExecSubmit(c, o))
       \/ (\E a \in BOOLEAN : ExecPoll(c, a))
       \/ (\E a \in BOOLEAN : ExecRegistry(c, a))
       \/ ExecFail(c) \/ ExecTxHash(c)
       \/ MigLoad(c) \/ MigRunning(c) \/ (\E ok \in BOOLEAN : MigExec(c, ok))
       \/ MigFailLog(c) \/ MigComplete(c)
       \/ ExecMarkStoreError(c) \/ ExecFailStoreError(c)
       \/ ExecTxHashStoreError(c) \/ MigStoreError(c)

\* every awaited call of the store and of the RPC returns or throws
SpecFaultsFair == SpecFaults /\ WF_vars(CallStep)

\* ---------------------------------------------------------------------------
\* Event indexer: the ledger and the RPC
\* ---------------------------------------------------------------------------

\* an event as getEvents returns it; id "" stands for an absent id
Ev(id, contractId, ledger, txHash) ==
  [ id |-> id, contractId |-> contractId, ledger |-> ledger,
    txHash |-> txHash ]

\* the events ledger l emits, in emission order: one for contract CA on an
\* odd ledger; on an even ledger one for CA without an id and one for CB whose
\* id repeats the id of the ledger before; the last ledger adds an event that
\* names no contract
EventsAt(l) ==
  ( IF l % 2 = 1
    THEN << Ev("ev" \o ToString(l), "CA", l, "tx" \o ToString(l)) >>
    ELSE << Ev("", "CA", l, "tx" \o ToString(l)),
            Ev("ev" \o ToString(l - 1), "CB", l, "tx" \o ToString(l)) >> )
  \o ( IF l = MaxLedger THEN << Ev("sys", "", l, "") >> ELSE << >> )

RECURSIVE EventsFrom(_, _)
\* the events of ledgers from..to in ledger order
EventsFrom(from, to) ==
  IF from > to THEN << >> ELSE EventsAt(from) \o EventsFrom(from + 1, to)

Reverse(s) == [j \in 1..Len(s) |-> s[Len(s) + 1 - j]]

RpcAnswers == {"ascending", "descending", "error"}

\* getEvents { startLedger, filters, pagination: { limit } }: the first
\* PageLimit events at or after startLedger, in the order the node sends them
\* the page of the live node when its last closed ledger is lat
LivePage(startLedger, lat) ==
  LET all == EventsFrom(IF startLedger < 1 THEN 1 ELSE startLedger, lat)
  IN SubSeq(all, 1, IF Len(all) < PageLimit THEN Len(all) ELSE PageLimit)

\* a fixture answers every request with its page
fetchContractEvents(startLedger, answer) ==
  LET page == IF fixture.on THEN fixture.page
              ELSE LivePage(startLedger, latest)
  IN IF answer = "descending" THEN Reverse(page) ELSE page

\* ---------------------------------------------------------------------------
\* Event indexer: pollOnce
\* ---------------------------------------------------------------------------

Max(a, b) == IF a > b THEN a ELSE b

\* String(event.id || `${contractId}-${ledgerSequence}-${event.txHash || ''}`)
eventId(e) ==
  IF e.id # ""
  THEN e.id
  ELSE e.contractId \o "-" \o ToString(e.ledger) \o "-" \o e.txHash

\* Number(x) of a ledgerSequence that is not numeric
NaN == -2

\* Number.isFinite(ledgerSequence)
isFinite(n) == n # NaN

\* ledgerSequence <= 0, false of NaN
NonPositive(n) == n # NaN /\ n <= 0

\* a loop with the first continue statement only
SkippedWithoutContractOnly(e) == e.contractId = ""

\* the two continue statements of the loop
Skipped(e) ==
  \/ e.contractId = ""
  \/ ~isFinite(e.ledger) \/ NonPositive(e.ledger)

EventRow(e) ==
  [ event_id |-> eventId(e), contract_id |-> e.contractId,
    ledger_sequence |-> e.ledger, tx_hash |-> e.txHash ]

Rows(rows) == {rows[j] : j \in 1..Len(rows)}

\* INSERT INTO contract_events without a conflict clause and without the index
InsertEventAlways(rows, row) == Append(rows, row)

\* INSERT INTO contract_events ... ON CONFLICT (event_id, contract_id) DO NOTHING
InsertEvent(rows, row) ==
  IF \E r \in Rows(rows) :
        r.event_id = row.event_id /\ r.contract_id = row.contract_id
  THEN rows
  ELSE Append(rows, row)

\* INSERT INTO contract_event_index_state ... DO UPDATE SET last_ledger_sequence
ensureStateRowUpsert(cp) == floor

\* INSERT INTO contract_event_index_state ... ON CONFLICT (state_key) DO NOTHING
ensureStateRow(cp) == IF cp = NoStateRow THEN floor ELSE cp

InFlight(k) == cycle[k].pc # "idle"

FreeCycle(k) == ~InFlight(k) /\ \A d \in 1..(k - 1) : InFlight(d)

\* this.lock = true; the contract list is not empty; the SELECT is sent
EnterCycle ==
  \E k \in Cycles :
    /\ FreeCycle(k)
    /\ lock' = TRUE
    /\ cycle' = [cycle EXCEPT ![k] = [IdleCycle EXCEPT !.pc = "read"]]

\* pollOnce without the lock test
pollOnceUnlocked == EnterCycle

\* pollOnce up to its first await: if (this.lock) return; then the cycle
pollOnce ==
  IF lock
  THEN UNCHANGED << lock, cycle >>
  ELSE EnterCycle

\* finally without the release
PollEndHoldingLock(k) ==
  /\ lock' = lock
  /\ cycle' = [cycle EXCEPT ![k] = IdleCycle]

\* return or catch, then finally { this.lock = false }
PollEnd(k) ==
  /\ lock' = FALSE
  /\ cycle' = [cycle EXCEPT ![k] = IdleCycle]

\* Number(state.rows[0]?.last_ledger_sequence ?? DEFAULT_START_LEDGER)
lastIndexedOf(row) == IF row = NoStateRow THEN floor ELSE row

\* a start at the last indexed ledger itself
startLedgerAtLastIndexed(lastIndexed) == Max(lastIndexed, floor)

\* Math.max(lastIndexed + 1, DEFAULT_START_LEDGER)
startLedgerOf(lastIndexed) == Max(lastIndexed + 1, floor)

\* the SELECT of the checkpoint answers
PollRead(k, ok) ==
  /\ cycle[k].pc = "read"
  /\ IF ok
     THEN /\ cycle' = [cycle EXCEPT
                ![k].pc = "fetch",
                ![k].lastIndexed = lastIndexedOf(checkpoint),
                ![k].startLedger = startLedgerOf(lastIndexedOf(checkpoint))]
          /\ lock' = lock
     ELSE PollEnd(k)
  /\ UNCHANGED << events, checkpoint, latest, initialized, running, timer,
                  intervals >>
  /\ UNCHANGED << fixture, floor, upgradeVars >>

\* getEvents answers
PollFetch(k, answer) ==
  /\ cycle[k].pc = "fetch"
  /\ LET page == fetchContractEvents(cycle[k].startLedger, answer)
     IN IF answer = "error" \/ page = NoPage
        THEN PollEnd(k)
        ELSE /\ cycle' = [cycle EXCEPT
                   ![k].pc = "insert", ![k].page = page, ![k].i = 1,
                   ![k].maxLedger = cycle[k].lastIndexed]
             /\ lock' = lock
  /\ UNCHANGED << events, checkpoint, latest, initialized, running, timer,
                  intervals >>
  /\ UNCHANGED << fixture, floor, upgradeVars >>

\* maxLedger = ledgerSequence
MaxLedgerLast(maxLedger, ledgerSequence) == ledgerSequence

\* maxLedger = Math.max(maxLedger, ledgerSequence)
MaxLedgerSeen(maxLedger, ledgerSequence) == Max(maxLedger, ledgerSequence)

\* one turn of the loop over the page: the event is skipped, or its INSERT
\* answers; after the last event the UPDATE is sent if maxLedger has moved
PollInsert(k, ok) ==
  /\ cycle[k].pc = "insert"
  /\ LET e == cycle[k].page[cycle[k].i]
         maxLedger == IF Skipped(e) THEN cycle[k].maxLedger
                      ELSE MaxLedgerSeen(cycle[k].maxLedger, e.ledger)
         last == cycle[k].i = Len(cycle[k].page)
     IN /\ Skipped(e) => ok
        /\ IF ~ok
           THEN PollEnd(k) /\ events' = events
           ELSE /\ events' = IF Skipped(e) THEN events
                             ELSE InsertEvent(events, EventRow(e))
                /\ IF last /\ maxLedger <= cycle[k].lastIndexed
                   THEN PollEnd(k)
                   ELSE /\ cycle' = [cycle EXCEPT
                              ![k].pc = IF last THEN "update" ELSE "insert",
                              ![k].i = IF last THEN 0 ELSE cycle[k].i + 1,
                              ![k].maxLedger = maxLedger]
                        /\ lock' = lock
  /\ UNCHANGED << checkpoint, latest, initialized, running, timer, intervals >>
  /\ UNCHANGED << fixture, floor, upgradeVars >>

\* UPDATE contract_event_index_state SET last_ledger_sequence = maxLedger
\* answers; without a state row it updates nothing
PollCheckpoint(k, ok) ==
  /\ cycle[k].pc = "update"
  /\ checkpoint' = IF ok /\ checkpoint # NoStateRow THEN cycle[k].maxLedger
                   ELSE checkpoint
  /\ PollEnd(k)
  /\ UNCHANGED << events, latest, initialized, running, timer, intervals >>
  /\ UNCHANGED << fixture, floor, upgradeVars >>

\* ---------------------------------------------------------------------------
\* Event indexer: the process
\* ---------------------------------------------------------------------------

\* app.listen callback: await initialize(); the tables exist already, the
\* state row is ensured; a store error leaves the indexer not started
Initialize(ok) ==
  /\ ~initialized
  /\ initialized' = ok
  /\ checkpoint' = IF ok THEN ensureStateRow(checkpoint) ELSE checkpoint
  /\ UNCHANGED << events, latest, running, timer, intervals, lock, cycle >>
  /\ UNCHANGED << fixture, floor, upgradeVars >>

\* running = true; void pollOnce(); timer = setInterval(...)
StartTimer ==
  /\ initialized
  /\ intervals < MaxIntervals
  /\ running' = TRUE
  /\ pollOnce
  /\ timer' = TRUE
  /\ intervals' = intervals + 1
  /\ UNCHANGED << events, checkpoint, latest, initialized >>
  /\ UNCHANGED << fixture, floor, upgradeVars >>

\* start() without the running test
StartAlways == StartTimer

\* start(): if (this.running) return; then the timer
Start ==
  IF running
  THEN initialized /\ UNCHANGED vars
  ELSE StartTimer

\* stop(): if (timer) clearInterval(timer); timer = null; running = false
Stop ==
  /\ intervals' = IF timer THEN intervals - 1 ELSE intervals
  /\ timer' = FALSE
  /\ running' = FALSE
  /\ UNCHANGED << events, checkpoint, latest, initialized, lock, cycle >>
  /\ UNCHANGED << fixture, floor, upgradeVars >>

\* a live timer fires: void this.pollOnce()
TimerTick ==
  /\ intervals > 0
  /\ pollOnce
  /\ UNCHANGED << events, checkpoint, latest, initialized, running, timer,
                  intervals >>
  /\ UNCHANGED << fixture, floor, upgradeVars >>

\* pollOnce() called from outside the timer
PollOnceCall ==
  /\ initialized
  /\ pollOnce
  /\ UNCHANGED << events, checkpoint, latest, initialized, running, timer,
                  intervals >>
  /\ UNCHANGED << fixture, floor, upgradeVars >>

\* the process ends and comes up again: the static fields, the timers and the
\* calls in flight are gone, the tables stay
Restart ==
  /\ initialized' = FALSE
  /\ running' = FALSE
  /\ timer' = FALSE
  /\ intervals' = 0
  /\ lock' = FALSE
  /\ cycle' = [k \in Cycles |-> IdleCycle]
  /\ UNCHANGED << events, checkpoint, latest >>
  /\ UNCHANGED << fixture, floor, upgradeVars >>

\* the network closes a ledger
LedgerClose ==
  /\ latest < MaxLedger
  /\ latest' = latest + 1
  /\ UNCHANGED << events, checkpoint, initialized, running, timer, intervals,
                  lock, cycle >>
  /\ UNCHANGED << fixture, floor, upgradeVars >>

NextIndexer ==
  \/ \E ok \in BOOLEAN : Initialize(ok)
  \/ Start
  \/ Stop
  \/ TimerTick
  \/ PollOnceCall
  \/ \E k \in Cycles, ok \in BOOLEAN : PollRead(k, ok)
  \/ \E k \in Cycles, a \in RpcAnswers : PollFetch(k, a)
  \/ \E k \in Cycles, ok \in BOOLEAN : PollInsert(k, ok)
  \/ \E k \in Cycles, ok \in BOOLEAN : PollCheckpoint(k, ok)
  \/ Restart
  \/ LedgerClose

SpecIndexer == Init /\ [][NextIndexer]_vars

\* ---------------------------------------------------------------------------
\* Event indexer under a configured start ledger
\* ---------------------------------------------------------------------------

\* the process comes up again with SOROBAN_EVENT_START_LEDGER set to f
Redeploy(f) ==
  /\ floor' = f
  /\ initialized' = FALSE
  /\ running' = FALSE
  /\ timer' = FALSE
  /\ intervals' = 0
  /\ lock' = FALSE
  /\ cycle' = [k \in Cycles |-> IdleCycle]
  /\ UNCHANGED << events, checkpoint, latest >>
  /\ UNCHANGED << fixture, upgradeVars >>

\* the first start, with some value of SOROBAN_EVENT_START_LEDGER
InitFloor ==
  /\ UpgradeInit
  /\ events = << >>
  /\ checkpoint = NoStateRow
  /\ latest = 0
  /\ initialized = FALSE
  /\ running = FALSE
  /\ timer = FALSE
  /\ intervals = 0
  /\ lock = FALSE
  /\ cycle = [k \in Cycles |-> IdleCycle]
  /\ fixture = LiveRpc
  /\ floor \in Floors

NextFloor ==
  \/ NextIndexer
  \/ \E f \in Floors : Redeploy(f)

SpecFloor == InitFloor /\ [][NextFloor]_vars

\* ---------------------------------------------------------------------------
\* Event indexer: a process that stays up
\* ---------------------------------------------------------------------------

\* the process is started once and not stopped; the RPC and the store answer
\* or fail, ledgers close
NextRunning ==
  \/ \E ok \in BOOLEAN : Initialize(ok)
  \/ Start
  \/ TimerTick
  \/ \E k \in Cycles, ok \in BOOLEAN : PollRead(k, ok)
  \/ \E k \in Cycles, a \in RpcAnswers : PollFetch(k, a)
  \/ \E k \in Cycles, ok \in BOOLEAN : PollInsert(k, ok)
  \/ \E k \in Cycles, ok \in BOOLEAN : PollCheckpoint(k, ok)
  \/ LedgerClose

SpecRunning == InitFloor /\ [][NextRunning]_vars

\* the INSERT of the i-th event of the page answers
InsertAnswers(k, i) == cycle[k].i = i /\ PollInsert(k, TRUE)

\* initialize() and start() are called, the timer keeps firing, and a
\* statement or request that is sent again and again is answered in the end
RunningFairness ==
  /\ WF_vars(Initialize(TRUE))
  /\ WF_vars(Start)
  /\ WF_vars(TimerTick)
  /\ \A k \in Cycles :
       /\ SF_vars(PollRead(k, TRUE))
       /\ SF_vars(\E a \in RpcAnswers \ {"error"} : PollFetch(k, a))
       /\ \A i \in 1..PageLimit : SF_vars(InsertAnswers(k, i))
       /\ SF_vars(PollCheckpoint(k, TRUE))

SpecRunningFair == SpecRunning /\ RunningFairness

\* ---------------------------------------------------------------------------
\* Event indexer against a fixture RPC
\* ---------------------------------------------------------------------------

\* events of an indexed contract without a usable ledger sequence: ledger 0,
\* and a ledgerSequence that is no number
MalformedEvents ==
  { Ev("m0", "CA", 0, "tx0"), Ev("mn", "CB", NaN, "txn") }

\* events of a fixture page
FixtureEvents == Rows(EventsFrom(1, MaxLedger)) \cup MalformedEvents

\* longest fixture page
MaxFixture == 3

FixturePages == UNION {[1..n -> FixtureEvents] : n \in 0..MaxFixture}

\* an initialized process, an empty event store, a state row at some ledger,
\* and an RPC endpoint that returns the same page to every request
InitFixture ==
  /\ UpgradeInit
  /\ events = << >>
  /\ checkpoint \in DEFAULT_START_LEDGER..MaxLedger
  /\ latest = MaxLedger
  /\ initialized = TRUE
  /\ running = FALSE
  /\ timer = FALSE
  /\ intervals = 0
  /\ lock = FALSE
  /\ cycle = [k \in Cycles |-> IdleCycle]
  /\ fixture \in {[on |-> TRUE, page |-> p] : p \in FixturePages}
  /\ floor = DEFAULT_START_LEDGER

\* pollOnce is called again and again; store and RPC answer
NextFixture ==
  \/ PollOnceCall
  \/ \E k \in Cycles : PollRead(k, TRUE)
  \/ \E k \in Cycles, a \in {"ascending"} : PollFetch(k, a)
  \/ \E k \in Cycles : PollInsert(k, TRUE)
  \/ \E k \in Cycles : PollCheckpoint(k, TRUE)

SpecFixture == InitFixture /\ [][NextFixture]_vars

\* ---------------------------------------------------------------------------
\* Properties of the upgrade orchestrator
\* ---------------------------------------------------------------------------

\* C1: once a log's status is completed, failed or cancelled, no step of any
\* operation changes its status again.
\* The code does not keep this: the final UPDATE of simulateUpgrade, the
\* 'executing' UPDATE of executeUpgrade and the last UPDATE of
\* runMigrationSteps carry no condition on the status they overwrite.
C1_TerminalStatusKept ==
  [][\A l \in LogIds :
       logs[l].status \in TerminalStatuses => logs'[l].status = logs[l].status]_vars

\* C2: ExecuteUpgrade on a log whose status is neither simulated nor confirmed
\* fails with InvalidStateError naming the status, the call ends there (so it
\* submits no transaction), and the logs, the registry and the ledger are as
\* they were.
C2_ExecuteRejectsNonExecutable ==
  [][\A c \in Calls, l \in LogIdInputs :
       (/\ ExecLoad(c, l)
        /\ l \in LogIds
        /\ logs[l].status \notin {"simulated", "confirmed"})
       => /\ response' = Result("execute", "InvalidStateError", logs[l].status, l)
          /\ call'[c] = IdleCall
          /\ logs' = logs
          /\ registry' = registry
          /\ txStatus' = txStatus
          /\ chain' = chain]_vars

\* an ExecuteUpgrade has just been refused on a log that is executing, and the
\* log is still executing
C2_Witness ==
  \E l \in LogIds :
    /\ response = Result("execute", "InvalidStateError", "executing", l)
    /\ logs[l].status = "executing"

\* C3: CancelUpgrade succeeds exactly when the status it finds is pending,
\* simulated or confirmed, and then the log is cancelled with completed_at
\* set; on any other status it fails with ConflictError and the logs are as
\* they were.
C3_CancelExactlyWhenCancellable ==
  [][\A c \in Calls, l \in LogIdInputs :
       (CancelUpgrade(c, l) /\ l \in LogIds)
       => IF logs[l].status \in {"pending", "simulated", "confirmed"}
            THEN /\ response' = Result("cancel", "ok", NULL, l)
                 /\ logs'[l].status = "cancelled"
                 /\ logs'[l].completed_at # NULL
                 /\ \A m \in LogIds \ {l} : logs'[m] = logs[m]
            ELSE /\ response' = Result("cancel", "ConflictError", NULL, l)
                 /\ logs' = logs]_vars

\* a CancelUpgrade has just been refused on an executing log, after another
\* log was cancelled
C3_Witness ==
  \E l, m \in LogIds :
    /\ response = Result("cancel", "ConflictError", NULL, l)
    /\ logs[l].status = "executing"
    /\ logs[m].status = "cancelled"
    /\ logs[m].completed_at # NULL

\* C4, as stated: every SimulateUpgrade call that found its contract creates
\* one row, in status pending, before the simulation.
\* (the INSERT of a call whose new hash is the current hash is refused)
C4_EverySimulateInsertsARow ==
  [][\A c \in Calls :
       SimInsert(c)
       => /\ Len(logs') = Len(logs) + 1
          /\ logs'[Len(logs')].status = "pending"
          /\ call'[c].pc = "sim_rpc"]_vars

\* C4, amended: a SimulateUpgrade call that found its contract creates exactly
\* one row, in status pending and before the simulation, when its new hash in
\* lower case differs from the current hash it read; when the two are equal
\* the store refuses the row, the call ends with an internal error and no row
\* exists for it. No other step adds or removes a row.
C4_SimulateInsertsARowUnlessSameHash ==
  [][/\ \A c \in Calls :
          SimInsert(c)
          => IF toLowerCase(call[c].hash) # call[c].prev
               THEN /\ Len(logs') = Len(logs) + 1
                    /\ \A l \in LogIds : logs'[l] = logs[l]
                    /\ logs'[Len(logs')].status = "pending"
                    /\ logs'[Len(logs')].simulation_result = NullSimulation
                    /\ logs'[Len(logs')].registry_id = call[c].reg
                    /\ call'[c].pc = "sim_rpc"
                    /\ call'[c].lid = Len(logs')
               ELSE /\ logs' = logs
                    /\ call'[c] = IdleCall
                    /\ response' = Result("simulate", "InternalError", NULL, 0)
     /\ Len(logs') # Len(logs) => \E c \in Calls : SimInsert(c)]_vars

\* a call has inserted its row and is at the simulation, the row still pending
C4_Witness ==
  \E c \in Calls :
    /\ call[c].pc = "sim_rpc"
    /\ logs[call[c].lid].status = "pending"
    /\ logs[call[c].lid].new_wasm_hash = toLowerCase(call[c].hash)
    /\ call[c].hash # toLowerCase(call[c].hash)

\* C5: when SimulateUpgrade returns, the log it created has simulation_result
\* persisted, its status is simulated if the simulation succeeded and failed
\* if it did not, and completed_at is set exactly in the failed case.
C5_SimulateOutcomePersisted ==
  [][(response'.op = "simulate" /\ response'.kind = "ok")
     => LET row == logs'[response'.lid]
        IN /\ ~row.simulation_result.isNull
           /\ row.simulation_result.success = (response'.detail = "ok")
           /\ row.status = (IF response'.detail = "ok" THEN "simulated" ELSE "failed")
           /\ (row.completed_at # NULL) = (row.status = "failed")]_vars

\* a SimulateUpgrade has just returned a failed simulation
C5_Witness ==
  /\ response.op = "simulate"
  /\ response.kind = "ok"
  /\ response.detail = "sim_error"
  /\ logs[response.lid].status = "failed"
  /\ logs[response.lid].completed_at # NULL

\* the malformed hashes among the inputs
MalformedHashInputs == {h \in HashInputs : Malformed(h)}

\* a request has arrived on slot c in this step
RequestStep(c) ==
  FreeSlot(c) /\ (response' # NoResponse \/ call'[c] # IdleCall)

\* C6: for every malformed hash, ValidateCodeHash and SimulateUpgrade answer
\* ValidationError, and the SimulateUpgrade call ends there without a row.
C6_MalformedHashRejected ==
  [][\A c \in Calls :
       RequestStep(c)
       => \A r \in RegistryIdInputs, h \in MalformedHashInputs :
            /\ (\E rpc \in RpcLedgerEntryOutcomes : ValidateHash(c, r, h, rpc))
               => response' = Result("validate", "ValidationError", NULL, 0)
            /\ SimLoad(c, r, h)
               => /\ response' = Result("simulate", "ValidationError", NULL, 0)
                  /\ call'[c] = IdleCall
                  /\ logs' = logs]_vars

\* a SimulateUpgrade has just been rejected for its hash
C6_Witness ==
  /\ response = Result("simulate", "ValidationError", NULL, 0)
  /\ logs = << >>

\* C7, as stated: the registry hash is written in the unit of work that marks
\* the log completed, so a call that has just written it finds its log
\* completed.
C7_RegistryWrittenWithCompletion ==
  \A c \in Calls :
    call[c].pc = "exec_txhash" => logs[call[c].lid].status = "completed"

\* C7, amended: a registry entry changes only in a step of an ExecuteUpgrade
\* call whose transaction the ledger has confirmed; the entry is the one of
\* the log under execution, its hash becomes that log's new hash, and the step
\* writes no log (marking the log completed or failed is left to the steps
\* that follow).
C7_RegistryWrittenOnConfirmation ==
  [][registry' # registry
     => \E c \in Calls :
          /\ call[c].op = "execute"
          /\ txStatus[c] = "SUCCESS"
          /\ \A r \in RegistryIds :
               registry'[r] # registry[r]
               => /\ r = logs[call[c].lid].registry_id
                  /\ registry'[r].current_wasm_hash = logs[call[c].lid].new_wasm_hash
          /\ logs' = logs]_vars

\* a call has written the registry and its log is still executing
C7_Witness ==
  \E c \in Calls :
    /\ call[c].pc = "exec_txhash"
    /\ logs[call[c].lid].status = "executing"
    /\ registry[call[c].reg].current_wasm_hash = logs[call[c].lid].new_wasm_hash
    /\ registry[call[c].reg] # SeedRegistry[call[c].reg]

\* an ExecuteUpgrade call for the contract is between its first statement and
\* its return
ExecuteInProgress(r) ==
  \E c \in Calls : call[c].op = "execute" /\ call[c].reg = r

\* C8: whenever no ExecuteUpgrade call for the contract is in progress, the
\* registry hash is the hash of the code live on the ledger.
\* The code does not keep this: a call that gave up polling, or whose registry
\* UPDATE failed, leaves the registry behind the ledger.
C8_RegistryMatchesChain ==
  \A r \in RegistryIds :
    ~ExecuteInProgress(r) => registry[r].current_wasm_hash = chain[r]

\* the persisted steps of a run halted at step k (positions 1..Len)
HaltedAt(steps, k) ==
  /\ \A j \in 1..(k - 1) : steps[j].status = "completed"
  /\ steps[k].status = "failed"
  /\ \A j \in (k + 1)..Len(steps) : steps[j].status = "pending"

\* C9: when a step fails, the state the run leaves has the steps before it
\* completed, the step failed, the steps after it pending, and the log failed
\* with completed_at set.
\* The code does not keep this when two ExecuteUpgrade calls passed the
\* status check of the same log: each run persists its own copy of the steps.
C9_FailedStepHaltsRun ==
  [][\A c \in Calls :
       MigFailLog(c)
       => LET row == logs'[call[c].lid]
          IN /\ row.status = "failed"
             /\ row.completed_at # NULL
             /\ HaltedAt(row.migration_steps, call[c].i)]_vars

\* C10: when all steps of a log have completed, the log becomes completed and
\* the registry hash is then the log's new hash.
\* The code does not keep this: a second log of the contract can be executed
\* while the steps of the first still run.
C10_CompletedLogMatchesRegistry ==
  [][\A c \in Calls :
       MigComplete(c)
       => /\ logs'[call[c].lid].status = "completed"
          /\ registry'[call[c].reg].current_wasm_hash
               = logs'[call[c].lid].new_wasm_hash]_vars

\* C11: when the confirmation poll runs out of attempts, the call fails with
\* the timeout error and the hash of the submitted transaction is in the
\* log's tx_hash.
\* The code does not keep this: tx_hash is written only after the try block,
\* which the timeout leaves through the catch.
C11_TimeoutKeepsTxHash ==
  [][\A c \in Calls :
       (ExecFail(c) /\ call[c].err = "did not confirm")
       => /\ response' = Result("execute", "ExecutionError", "did not confirm",
                                call[c].lid)
          /\ logs'[call[c].lid].tx_hash # NULL]_vars

\* the errors thrown before the ledger has confirmed the transaction
BeforeConfirmation ==
  {"not submitted", "failed on-chain", "did not confirm", "rpc error"}

C13_EventKeyUnique ==
  /\ \A i, j \in 1..Len(events) :
       ( events[i].event_id = events[j].event_id
         /\ events[i].contract_id = events[j].contract_id ) => i = j
  /\ \A r \in Rows(events) :
       (r.contract_id = "CA" /\ r.ledger_sequence % 2 = 0)
       => r.event_id = "CA-" \o ToString(r.ledger_sequence) \o "-" \o r.tx_hash

\* a cycle has gone past an event whose row an earlier cycle stored, and a row
\* with the fallback key is stored
C13_Witness ==
  /\ \E k \in Cycles :
       /\ cycle[k].pc = "insert" /\ cycle[k].i = 2
       /\ EventRow(cycle[k].page[1]) \in Rows(events)
       /\ EventRow(cycle[k].page[2]) \in Rows(events)
  /\ \E r \in Rows(events) : r.event_id = "CA-2-tx2"
  /\ Len(events) = Cardinality(Rows(events))

\* every event of the page that is not skipped is stored, and the checkpoint
\* has reached the ledgers of the page
Absorbed(page) ==
  \A j \in 1..Len(page) :
    ~Skipped(page[j])
    => /\ EventRow(page[j]) \in Rows(events)
       /\ checkpoint >= page[j].ledger

\* C14: pollOnce is idempotent over a fixed RPC result: a call that runs to
\* its end against the fixture leaves every event of the page stored and the
\* checkpoint at or past the page, and a call made in such a state changes
\* neither the rows of the event store nor the checkpoint, so two calls leave
\* what one call leaves.
C14_PollOnceIdempotent ==
  [][\A k \in Cycles :
       /\ ( (PollInsert(k, TRUE) \/ PollCheckpoint(k, TRUE))
            /\ cycle'[k].pc = "idle" )
          => /\ Absorbed(fixture.page)'
             /\ Len(events') = Cardinality(Rows(events'))
       /\ (Absorbed(fixture.page) /\ (InFlight(k) \/ cycle'[k].pc = "read"))
          => events' = events /\ checkpoint' = checkpoint]_vars

\* a second call is going through a page of two events that the first call
\* stored, the checkpoint moved by the first call
C14_Witness ==
  \E k \in Cycles :
    /\ fixture.on /\ Len(fixture.page) = 2
    /\ cycle[k].pc = "insert" /\ cycle[k].i = 2
    /\ Len(events) = 2
    /\ cycle[k].lastIndexed = 2 /\ checkpoint = 2
    /\ Absorbed(fixture.page)

\* C15: whatever pollOnce calls, initialize calls and restarts happen, the
\* checkpoint's last_ledger_sequence never decreases.
C15_CheckpointNeverDecreases ==
  [][checkpoint' >= checkpoint]_vars

\* the checkpoint has moved, the process has come up again and initialize has
\* run over the existing state row
C15_Witness ==
  /\ checkpoint = MaxLedger
  /\ initialized /\ ~running
  /\ \A k \in Cycles : ~InFlight(k)
  /\ Len(events) >= 2

RECURSIVE MaxStoredFrom(_)
MaxStoredFrom(j) ==
  IF j > Len(events) THEN 0
  ELSE Max(events[j].ledger_sequence, MaxStoredFrom(j + 1))

\* the highest ledger_sequence in contract_events
MaxStored == MaxStoredFrom(1)

\* the step ends cycle k in its try block
EndsWithoutError(k) ==
  /\ cycle'[k].pc = "idle"
  /\ \/ PollFetch(k, "ascending") \/ PollFetch(k, "descending")
     \/ PollInsert(k, TRUE) \/ PollCheckpoint(k, TRUE)

\* the step ends cycle k in its catch block
EndsWithError(k) ==
  \/ PollRead(k, FALSE) \/ PollFetch(k, "error")
  \/ PollInsert(k, FALSE) \/ PollCheckpoint(k, FALSE)

\* C16: between poll cycles, whether they ended normally or on an RPC or store
\* error, the checkpoint equals the highest ledger sequence among the stored
\* events (with no stored event it is where it was).
\* The code does not keep this after a store error: the rows a cycle inserted
\* before the error stay, the checkpoint stays behind them.
C16_CheckpointIsMaxStored ==
  (initialized /\ \A k \in Cycles : ~InFlight(k))
  => (events = << >> \/ checkpoint = MaxStored)

\* C16, amended: the checkpoint is never ahead of the highest stored ledger
\* sequence once an event is stored; a cycle that ends without error leaves
\* the checkpoint equal to it (or where it was, with no stored event); a cycle
\* that ends on an error leaves the checkpoint where it was.
C16_CheckpointIsMaxStoredAfterCleanCycle ==
  [][/\ events' # << >> => checkpoint' <= MaxStored'
     /\ \A k \in Cycles :
          /\ EndsWithoutError(k)
             => IF events' = << >> THEN checkpoint' = checkpoint
                ELSE checkpoint' = MaxStored'
          /\ EndsWithError(k) => checkpoint' = checkpoint]_vars

\* a cycle whose page came newest first has stored both events and ended
\* after its UPDATE
C16_Witness ==
  /\ \A k \in Cycles : ~InFlight(k)
  /\ initialized /\ running
  /\ checkpoint = 2 /\ MaxStored = 2 /\ Len(events) = 2 /\ latest = 2
  /\ events[1].ledger_sequence = 2

\* the rows of the events the ledger has emitted for an indexed contract at
\* ledger l
EmittedRows(l) ==
  { EventRow(e) : e \in {x \in Rows(EventsAt(l)) : x.contractId \in IndexedContracts} }

\* C17: for every ledger from the floor up to the checkpoint, every event the
\* ledger emitted at it for an indexed contract is in the event store.
\* The code does not keep this: a page of getEvents that ends inside a ledger
\* moves the checkpoint to that ledger, and the next cycle starts one ledger
\* later.
C17_CheckpointComplete ==
  \A l \in 1..MaxLedger :
    (DEFAULT_START_LEDGER <= l /\ l <= checkpoint)
    => EmittedRows(l) \subseteq Rows(events)

\* the step is a store error in cycle k after its startLedger was computed
StoreErrorAfterRead(k) == PollInsert(k, FALSE) \/ PollCheckpoint(k, FALSE)

\* C18: when the RPC call of a cycle raises an error, the checkpoint is
\* unchanged and the cycle has committed no event row (rows are written only
\* by the inserts that follow a successful RPC call); when a store statement
\* of a cycle raises an error, the cycle ends with the checkpoint where it was
\* and the lock released, and a cycle that starts next computes the start
\* ledger the failed cycle used.
C18_ErrorLeavesCheckpoint ==
  [][/\ events' # events
        => \E k \in Cycles : cycle[k].pc = "insert" /\ PollInsert(k, TRUE)
     /\ \A k \in Cycles :
          /\ cycle[k].pc = "insert" => cycle'[k].pc # "fetch"
          /\ PollFetch(k, "error")
             => /\ checkpoint' = checkpoint /\ events' = events
                /\ cycle'[k] = IdleCycle /\ lock' = FALSE
          /\ (PollRead(k, FALSE) \/ StoreErrorAfterRead(k))
             => /\ checkpoint' = checkpoint
                /\ cycle'[k] = IdleCycle /\ lock' = FALSE
          /\ StoreErrorAfterRead(k)
             => cycle[k].startLedger = Max(checkpoint' + 1, DEFAULT_START_LEDGER)]_vars

\* a cycle that follows a failed one is about to insert, from the same start
\* ledger, an event the failed cycle stored
C18_Witness ==
  \E k \in Cycles :
    /\ cycle[k].pc = "insert" /\ cycle[k].i = 1
    /\ cycle[k].startLedger = 1 /\ checkpoint = 0
    /\ EventRow(cycle[k].page[1]) \in Rows(events)
    /\ running

CyclesInFlight == {k \in Cycles : InFlight(k)}

\* C19: at most one poll cycle is in flight in the process, and the lock is
\* held exactly while it is; a pollOnce made by a timer tick, by start or from
\* outside while the lock is held touches neither the RPC nor the store and
\* leaves nothing behind that would run later: a cycle begins only in the step
\* of such a call, with the lock free; every end of a cycle releases the lock.
C19_OneCycleInFlight ==
  [][/\ Cardinality(CyclesInFlight') <= 1
     /\ lock' = (CyclesInFlight' # {})
     /\ (lock /\ (TimerTick \/ PollOnceCall \/ Start))
        => UNCHANGED << cycle, lock, events, checkpoint >>
     /\ \A k \in Cycles :
          /\ (~InFlight(k) /\ cycle'[k].pc # "idle")
             => /\ ~lock /\ cycle'[k].pc = "read"
                /\ (TimerTick \/ PollOnceCall \/ Start)
          /\ (InFlight(k) /\ cycle'[k].pc = "idle") => lock' = FALSE]_vars

\* a cycle is at its second insert while the timer is live, and a cycle that
\* ended before it has released the lock
C19_Witness ==
  /\ lock /\ intervals = 1
  /\ \E k \in Cycles : cycle[k].pc = "insert" /\ cycle[k].i = 2
  /\ checkpoint >= 1

\* C20: under any sequence of start and stop calls at most one recurring timer
\* exists, and running is true exactly when the timer exists; start while
\* running adds no timer and makes no poll; stop leaves no live timer, so that
\* a tick begins a cycle only while running, and stop leaves a cycle in flight
\* as it is.
C20_OneTimer ==
  [][/\ intervals' <= 1
     /\ running' = timer'
     /\ timer' = (intervals' = 1)
     /\ (running /\ Start) => UNCHANGED << intervals, timer, cycle, lock >>
     /\ Stop => /\ intervals' = 0 /\ ~running'
                /\ UNCHANGED << cycle, lock, events, checkpoint >>
     /\ (TimerTick /\ cycle' # cycle) => running]_vars

\* stop has been called while a cycle was inserting: the timer is gone, the
\* cycle is still in flight
C20_Witness ==
  /\ initialized /\ ~running /\ ~timer /\ intervals = 0
  /\ lock
  /\ \E k \in Cycles : cycle[k].pc = "insert" /\ cycle[k].i = 2

RECURSIVE InsertPage(_, _, _)
\* the rows after the inserts of the page from its j-th event on
InsertPage(rows, page, j) ==
  IF j > Len(page) THEN rows
  ELSE InsertPage(IF Skipped(page[j]) THEN rows
                  ELSE InsertEvent(rows, EventRow(page[j])), page, j + 1)

RECURSIVE MaxLedgerOfPage(_, _, _)
\* maxLedger after the loop over the page from its j-th event on
MaxLedgerOfPage(maxLedger, page, j) ==
  IF j > Len(page) THEN maxLedger
  ELSE MaxLedgerOfPage(IF Skipped(page[j]) THEN maxLedger
                       ELSE MaxLedgerSeen(maxLedger, page[j].ledger),
                       page, j + 1)

\* what a cycle that is neither interrupted nor failed leaves, begun with
\* the rows and checkpoint of s when the last closed ledger is lat
CleanCycle(s, lat) ==
  LET page == LivePage(Max(s.cp + 1, DEFAULT_START_LEDGER), lat)
  IN [ rows |-> InsertPage(s.rows, page, 1),
       cp |-> MaxLedgerOfPage(s.cp, page, 1),
       lat |-> lat ]

\* the states of runs in which no cycle is interrupted or fails and the
\* ledger only advances
CleanRuns ==
  LET Step(S) == S \cup UNION { { CleanCycle(s, l) : l \in s.lat..MaxLedger } :
                                  s \in S }
      Iterate[n \in 0..(2 * MaxLedger + 2)] ==
        IF n = 0
        THEN { [rows |-> << >>, cp |-> DEFAULT_START_LEDGER, lat |-> 0] }
        ELSE Step(Iterate[n - 1])
  IN Iterate[2 * MaxLedger + 2]

\* what such runs leave once the ledger has stopped and nothing is left to
\* index: the set of stored rows and the checkpoint
CleanOutcomes ==
  { [rows |-> Rows(s.rows), cp |-> s.cp] :
      s \in { t \in CleanRuns : t.lat = MaxLedger /\ CleanCycle(t, MaxLedger) = t } }

\* the ledger has stopped, no cycle is in flight and a further cycle would
\* change nothing
CaughtUp ==
  /\ latest = MaxLedger /\ checkpoint # NoStateRow
  /\ \A k \in Cycles : ~InFlight(k)
  /\ LET s == [rows |-> events, cp |-> checkpoint, lat |-> latest]
     IN CleanCycle(s, latest) = s

WellFormedHashInputs == {h \in HashInputs : ~Malformed(h)}

\* the two hashes name the same code
SameHash(h, g) == toLowerCase(h) = toLowerCase(g)

\* C22: ValidateCodeHash of a well-formed hash for a registered contract
\* answers, never with an error: valid=false for identity when the hash is the
\* registry's current hash; otherwise valid=false when the RPC answers that
\* the code is absent, valid=true when the code is found or the RPC is
\* unreachable; it changes no registry row and no upgrade log.
C22_ValidateAnswers ==
  [][\A c \in Calls :
       RequestStep(c)
       => \A r \in RegistryIds, h \in WellFormedHashInputs,
             rpc \in RpcLedgerEntryOutcomes :
            ValidateHash(c, r, h, rpc)
            => /\ response'.op = "validate" /\ response'.kind = "ok"
               /\ response'.detail =
                    IF SameHash(h, registry[r].current_wasm_hash)
                    THEN "invalid: identical"
                    ELSE IF rpc = "absent" THEN "invalid: not on chain"
                    ELSE "valid"
               /\ registry' = registry /\ logs' = logs
               /\ call' = call]_vars

\* after an upgrade has changed a registry row, a hash has been found
\* identical to the current one
C22_Witness ==
  /\ response = Result("validate", "ok", "invalid: identical", 0)
  /\ \E r \in RegistryIds :
       registry[r].current_wasm_hash # SeedRegistry[r].current_wasm_hash

\* C23: a registry row changes only in an ExecuteUpgrade call, only the row
\* of the log's registry_id, to the log's new hash; the call that changed it
\* writes the log's tx_hash, and a call that fails has not changed it.
\* The code writes the registry row and tx_hash in two statements: when the
\* second one throws, the call fails with the registry row changed and no
\* tx_hash.
C23_OnlyExecuteWritesRegistry ==
  [][/\ registry' # registry
        => \E c \in Calls :
             /\ call[c].op = "execute" /\ call[c].pc = "exec_registry"
             /\ \A r \in RegistryIds :
                  r # logs[call[c].lid].registry_id => registry'[r] = registry[r]
             /\ registry'[logs[call[c].lid].registry_id].current_wasm_hash
                  = logs[call[c].lid].new_wasm_hash
             /\ call'[c].pc = "exec_txhash"
     /\ \A c \in Calls :
          (call[c].pc = "exec_txhash" /\ call'[c].pc # "exec_txhash")
          => /\ logs'[call[c].lid].tx_hash # NULL
             /\ response'.kind = "ok"]_vars

\* a list of steps in sequential shape
SequentialShape(steps) ==
  /\ Cardinality({i \in DOMAIN steps : steps[i].status = "running"}) <= 1
  /\ \A i \in DOMAIN steps :
       /\ steps[i].status \in {"running", "completed", "failed"}
          => \A j \in 1..(i - 1) : steps[j].status = "completed"
       /\ steps[i].status \in {"running", "failed"}
          => \A j \in (i + 1)..Len(steps) : steps[j].status = "pending"

\* C24: every persisted migration_steps list is in sequential shape, and a
\* step is executed only when the persisted list shows it running.
\* The code does not keep this when two ExecuteUpgrade calls passed the status
\* check of one log (C29): each migration run overwrites the list with its own
\* copy.
C24_StepsSequential ==
  [][/\ \A l \in DOMAIN logs' : SequentialShape(logs'[l].migration_steps)
     /\ \A c \in Calls, ok \in BOOLEAN :
          (call[c].pc = "mig_exec" /\ MigExec(c, ok))
          => logs[call[c].lid].migration_steps[call[c].i].status = "running"]_vars

\* C25: every upgrade log that enters status executing eventually reaches
\* completed or failed, the store and the RPC answering every call, some of
\* them with an error; and a log is marked completed only with every step
\* completed.
\* The code does not keep this: a store error outside the try blocks ends the
\* call or the migration run and leaves the log executing.
C25_ExecutingEnds ==
  /\ \A l \in LogIdInputs :
       (l \in LogIds /\ logs[l].status = "executing")
       ~> (l \in LogIds /\ logs[l].status \in {"completed", "failed"})
  /\ [][\A c \in Calls :
          MigComplete(c)
          => \A i \in DOMAIN logs'[call[c].lid].migration_steps :
               logs'[call[c].lid].migration_steps[i].status = "completed"]_vars

\* the texts the three failure paths store in error_message
FailureMessages ==
  {SimulationOf(o).error : o \in SimOutcomes \ {"ok"}}
    \cup {ExecErrorMessage(e) : e \in {"not submitted", "did not confirm", "rejected"}}
    \cup {"migration step failed"}

\* C26: in every reachable state an upgrade log whose status is failed has a
\* non-null error_message, the text of one of the three failure paths
\* (simulation, execution or confirmation, migration step).
C26_FailedHasMessage ==
  \A l \in LogIds :
    logs[l].status = "failed"
    => /\ logs[l].error_message # NULL
       /\ logs[l].error_message \in FailureMessages

\* one log failed in its migration, another in its execution; the request
\* that failed in execution got the error as well
C26_Witness ==
  /\ \E l \in LogIds :
       logs[l].status = "failed" /\ logs[l].error_message = "migration step failed"
  /\ \E l \in LogIds :
       /\ logs[l].status = "failed"
       /\ logs[l].error_message = ExecErrorMessage("not submitted")
       /\ response.kind = "ExecutionError" /\ response.lid = l

\* C27: in every reachable state of an upgrade log completed_at is non-null
\* exactly when the status is completed, failed or cancelled.
\* The code does not keep this: the UPDATE that sets status = 'executing'
\* leaves completed_at as it is and has no condition on the status, so it
\* turns a log that a concurrent call already failed or cancelled back to
\* executing with completed_at set.
C27_CompletedAtIffTerminal ==
  \A l \in LogIds :
    (logs[l].completed_at # NULL) <=> (logs[l].status \in TerminalStatuses)

\* C28: every stored upgrade log has new_wasm_hash different from
\* previous_wasm_hash, and the INSERT that creates a log stores as
\* previous_wasm_hash the registry's current_wasm_hash of that moment, so that
\* no log is created towards the hash the registry already holds.
\* The code does not keep the second part: simulateUpgrade reads the registry
\* row in one statement and inserts in a later one, and an ExecuteUpgrade
\* that confirms in between changes the registry row.
C28_PreviousIsCurrent ==
  [][/\ \A l \in DOMAIN logs' :
          logs'[l].new_wasm_hash # logs'[l].previous_wasm_hash
     /\ Len(logs') > Len(logs)
        => LET row == logs'[Len(logs')]
           IN /\ row.previous_wasm_hash = registry[row.registry_id].current_wasm_hash
              /\ row.new_wasm_hash # registry[row.registry_id].current_wasm_hash]_vars

\* the calls that hold log l past the status check of executeUpgrade, or run
\* its migration
ExecutingCalls(l) ==
  {c \in Calls : call[c].op \in {"execute", "migrate"} /\ call[c].lid = l}

\* C29: for one upgrade log at most one ExecuteUpgrade call passes the status
\* check: the call that marks the log executing finds it simulated or
\* confirmed, and no two calls execute or migrate the same log.
\* The code does not keep this: the status check and the UPDATE to
\* 'executing' are two statements, and a second call can pass the check
\* between them.
C29_SingleExecute ==
  [][/\ \A c \in Calls :
          ExecMark(c) => logs[call[c].lid].status \in ExecutableStatuses
     /\ \A l \in LogIds : Cardinality(ExecutingCalls(l)) <= 1]_vars

\* C30: of one CancelUpgrade and one ExecuteUpgrade on a simulated log one
\* takes effect: a simulated log that was cancelled stays cancelled and no
\* call goes on to submit a transaction for it, and a CancelUpgrade on a log
\* under execution fails with ConflictError.
\* The code does not keep the first part: an ExecuteUpgrade that passed the
\* status check before the cancellation sets the log to executing after it
\* and submits.
C30_CancelOrExecute ==
  [][/\ \A l \in LogIds :
          (logs[l].status = "cancelled" /\ ~logs[l].simulation_result.isNull)
          => logs'[l].status = "cancelled"
     /\ \A c \in Calls :
          (call[c].pc = "exec_submit" /\ call'[c].pc # "exec_submit")
          => logs[call[c].lid].status # "cancelled"
     /\ \A c \in Calls, l \in LogIdInputs :
          (CancelUpgrade(c, l) /\ l \in LogIds /\ logs[l].status = "executing")
          => /\ response' = Result("cancel", "ConflictError", NULL, l)
             /\ logs' = logs]_vars

\* C31: at the moment an upgrade log's new hash is written to the registry
\* entry, the entry's current_wasm_hash is that log's previous_wasm_hash.
\* The code does not keep this: the UPDATE of contract_registry carries no
\* condition on the hash it replaces, and executeUpgrade never compares the
\* log's previous_wasm_hash with the registry, so a second log of the same
\* contract is applied on top of the first.
C31_AppliedOnItsBaseline ==
  [][\A c \in Calls :
       (call[c].pc = "exec_registry" /\ call'[c].pc = "exec_txhash")
       => registry[RegistryRowOf(call[c].lid)].current_wasm_hash
            = logs[call[c].lid].previous_wasm_hash]_vars

\* ---------------------------------------------------------------------------
\* More properties of the event indexer
\* ---------------------------------------------------------------------------

\* the SELECT of cycle k has answered in this step
ReadAnswered(k) == cycle[k].pc = "read" /\ cycle'[k].pc = "fetch"

\* C32, as stated: a cycle starts at max(c + 1, floor), c being the floor when
\* the state row is missing or holds a ledger older than the floor.
\* (a row older than the floor is used as it is: the cycle starts at the floor)
C32_StartLedgerFloorForOlderRow ==
  [][\A k \in Cycles :
       ReadAnswered(k)
       => LET c == IF checkpoint = NoStateRow \/ checkpoint < floor
                   THEN floor ELSE checkpoint
          IN cycle'[k].startLedger = Max(c + 1, floor)]_vars

\* C32, amended: a cycle starts at max(c + 1, floor), c being the floor when
\* the state row is missing and the row's ledger otherwise, also when that
\* ledger is older than the floor; a request in flight never starts at or
\* below the checkpoint nor below the floor.
C32_StartLedger ==
  [][/\ \A k \in Cycles :
          ReadAnswered(k)
          => LET c == IF checkpoint = NoStateRow THEN floor ELSE checkpoint
             IN cycle'[k].startLedger = Max(c + 1, floor)
     /\ \A k \in Cycles :
          cycle'[k].pc = "fetch"
          => /\ cycle'[k].startLedger > checkpoint'
             /\ cycle'[k].startLedger >= floor']_vars

\* a request is in flight that starts at the floor, the state row holding an
\* older ledger, with events already stored
C32_Witness ==
  \E k \in Cycles :
    /\ cycle[k].pc = "fetch"
    /\ checkpoint # NoStateRow /\ checkpoint < floor
    /\ cycle[k].startLedger = floor
    /\ events # << >>

\* the events of a page that pass the two checks of the loop
Considered(page) == {j \in 1..Len(page) : ~Skipped(page[j])}

\* C33: an event with an empty contract address or with a ledger sequence
\* that is not positive or not a number is never stored; the checkpoint is
\* written by the last statement of a cycle only, after the INSERT of every
\* event of the page that passed the checks, and the value written is the
\* maximum ledger sequence of those events.
C33_MalformedNeverCounts ==
  [][/\ \A r \in Rows(events') :
          r.contract_id # "" /\ isFinite(r.ledger_sequence) /\ r.ledger_sequence > 0
     /\ checkpoint' # checkpoint
        => \E k \in Cycles :
             /\ cycle[k].pc = "update" /\ cycle'[k].pc = "idle"
             /\ \A d \in Cycles \ {k} : cycle[d].pc # "update"
             /\ Considered(fixture.page) # {}
             /\ \A j \in Considered(fixture.page) :
                  /\ EventRow(fixture.page[j]) \in Rows(events)
                  /\ fixture.page[j].ledger <= checkpoint'
             /\ \E j \in Considered(fixture.page) :
                  fixture.page[j].ledger = checkpoint']_vars

\* a cycle went through a page of three events of which one has ledger 0 and
\* one a ledger sequence that is no number, stored the third and is about to
\* write its ledger as the checkpoint
C33_Witness ==
  \E k \in Cycles :
    /\ fixture.on /\ Len(fixture.page) = 3
    /\ \E j \in 1..3 : fixture.page[j].ledger = 0
    /\ \E j \in 1..3 : fixture.page[j].ledger = NaN
    /\ cycle[k].pc = "update" /\ cycle[k].maxLedger = 1
    /\ checkpoint = 0
    /\ Len(events) = 1

\* a statement of cycle k fails or its request is refused in this step
CycleFails(k) ==
  \/ PollRead(k, FALSE)
  \/ PollFetch(k, "error")
  \/ PollInsert(k, FALSE)
  \/ PollCheckpoint(k, FALSE)

\* C34: whatever the RPC or the store answers, a pollOnce call ends, and the
\* step in which one of its statements fails ends it with the lock released
\* and the process as it was (initialized, running, its timer live), so that
\* pollOnce can be entered again; the lock is held only while a call is in
\* flight.
C34_PollOnceNeverThrows ==
  /\ [][\A k \in Cycles :
          CycleFails(k)
          => /\ cycle'[k] = IdleCycle
             /\ lock' = FALSE
             /\ initialized' /\ running' = running /\ timer' = timer
             /\ intervals' = intervals
             /\ checkpoint' = checkpoint]_vars
  /\ [](lock => \E k \in Cycles : InFlight(k))
  /\ \A k \in Cycles : InFlight(k) ~> ~InFlight(k)

\* a statement failed after a row was stored (the rows are ahead of the
\* checkpoint, and the process was never stopped), and the next call is in
\* flight with the timer live
C34_Witness ==
  \E k \in Cycles :
    /\ cycle[k].pc = "fetch"
    /\ events # << >> /\ checkpoint = 0
    /\ running /\ timer /\ lock

\* initialize() returns in this step
InitializeReturns == ~initialized /\ initialized'

\* C35: initialize creates the state row only when it is missing, with the
\* start ledger of the environment; it leaves an existing row as it is,
\* whatever the start ledger now says, and leaves the stored events; a
\* second run of its statements changes nothing; and the first read of a
\* cycle after it takes the stored ledger as the last indexed one.
C35_InitializeIdempotent ==
  [][/\ InitializeReturns
        => /\ events' = events
           /\ checkpoint' = IF checkpoint = NoStateRow THEN floor ELSE checkpoint
           /\ ensureStateRow(checkpoint') = checkpoint'
     /\ (~initialized /\ ~initialized') => events' = events /\ checkpoint' = checkpoint
     /\ \A k \in Cycles :
          (ReadAnswered(k) /\ checkpoint # NoStateRow)
          => cycle'[k].lastIndexed = checkpoint]_vars

\* the process came up with a start ledger above the stored checkpoint,
\* initialize has returned, and the checkpoint and the events are those the
\* earlier process left
C35_Witness ==
  /\ initialized
  /\ checkpoint # NoStateRow /\ checkpoint < floor
  /\ checkpoint > 0
  /\ events # << >>
  /\ \A k \in Cycles : ~InFlight(k)

\* the j-th event ledger l emits is stored
StoredAt(l, j) == EventRow(EventsAt(l)[j]) \in Rows(events)

\* C36: with the process up and the RPC and the store answering in the end,
\* every well-formed event of an indexed contract that the ledger emitted at
\* a ledger at or above the start ledger is eventually stored.
\* The code does not keep this: a process that comes up on an empty store
\* writes the start ledger itself as the checkpoint and asks from the ledger
\* after it, and a page that ends inside a ledger moves the checkpoint to that
\* ledger (C17); the events left behind are never asked for again.
C36_CatchUp ==
  \A l \in 1..MaxLedger :
    \A j \in 1..Len(EventsAt(l)) :
      (latest >= l /\ l >= floor /\ ~Skipped(EventsAt(l)[j])) ~> StoredAt(l, j)

\* ---------------------------------------------------------------------------
\* The on-chain check of ValidateCodeHash
\* ---------------------------------------------------------------------------

\* C37: the answer of ValidateCodeHash tells an on-chain check that could not
\* be made from one that was made and passed: for a request that comes to the
\* on-chain check, the answer given with the RPC unreachable is not the
\* answer given with the RPC reachable and the code object found.
\* The code does not keep this: the catch clause only warns and the function
\* returns { valid: true } in both cases.
C37_SkippedCheckIsTold ==
  [][\A c \in Calls :
       RequestStep(c)
       => \A r \in RegistryIds, h \in WellFormedHashInputs :
            (/\ ~SameHash(h, registry[r].current_wasm_hash)
             /\ ValidateHash(c, r, h, "unreachable"))
            => ~ValidateHash(c, r, h, "found")]_vars

====
